---- MODULE Spec2Model ----
(***************************************************************************)
(* LLM tracing demo: request-id middleware, /chat dispatcher, the LLM      *)
(* invocation service with its response normalizer, and the two error      *)
(* handlers that record an error span and answer 500.                      *)
(*                                                                         *)
(* Python text is a sequence of one-character strings, so that strip(),    *)
(* join() and truthiness are computed rather than assumed.  Identifiers    *)
(* (request ids, session ids, model names) are TLA+ strings; None is the   *)
(* string NoneId for them and the sequence NoneStr for text.               *)
(***************************************************************************)
EXTENDS Integers, Sequences, FiniteSets, TLC

VARIABLES
    langfuse_client,  \* main.py:17   module-level tracing client, or NoneId
    provider,         \* what the remote provider does when it is called
    pc,               \* per request: position in the request life cycle
    req,              \* per request: the inbound HTTP request
    state_request_id, \* per request: request.state.request_id
    call_args,        \* per request: positional arguments handed to the worker
    result,           \* per request: outcome of the offloaded call
    spans,            \* per request: spans emitted while serving it
    response,         \* per request: what the caller receives
    calls,            \* per request: outbound provider calls made
    content,          \* normalizer run: the provider message content
    outcome           \* normalizer run: what _call_llm produced for it

vars == <<langfuse_client, provider, pc, req, state_request_id, call_args,
          result, spans, response, calls, content, outcome>>

pipelineVars == <<langfuse_client, provider, pc, req, state_request_id,
                  call_args, result, spans, response, calls>>

normVars == <<content, outcome>>

-----------------------------------------------------------------------------
(* Bounds *)

NumRequests == 2
MaxStrLen == 2
MaxParts == 2

-----------------------------------------------------------------------------
(* Python values *)

NoneId == "<None>"
NoneStr == <<"<None>">>
EmptyStr == <<>>

Chars == {"a", " "}

Strings == UNION {[1..n -> Chars] : n \in 0..MaxStrLen}

\* str.strip() strips leading and trailing whitespace
IsSpace(c) == c \in {" ", "\n", "\t"}

RECURSIVE lstrip(_)
lstrip(s) ==
    IF s = <<>> THEN <<>>
    ELSE IF IsSpace(Head(s)) THEN lstrip(Tail(s)) ELSE s

RECURSIVE rstrip(_)
rstrip(s) ==
    IF s = <<>> THEN <<>>
    ELSE IF IsSpace(s[Len(s)]) THEN rstrip(SubSeq(s, 1, Len(s) - 1)) ELSE s

strip(s) == rstrip(lstrip(s))

\* a value stored under a key of a content part: str, None, or a non-zero int
PyStr(s) == [t |-> "str", s |-> s]
PyNone == [t |-> "none", s |-> EmptyStr]
PyInt == [t |-> "int", s |-> EmptyStr]

\* Python truthiness of such a value
truthy(v) ==
    CASE v.t = "str" -> Len(v.s) > 0
      [] v.t = "none" -> FALSE
      [] v.t = "int" -> TRUE

\* content parts: a dict (with or without a "text" key), a plain str, or an
\* SDK object whose str() is its repr
DictPart(hasText, text) ==
    [t |-> "dict", hasText |-> hasText, text |-> text, s |-> EmptyStr]
StrPart(s) == [t |-> "str", hasText |-> FALSE, text |-> PyNone, s |-> s]
ObjPart(repr) == [t |-> "obj", hasText |-> FALSE, text |-> PyNone, s |-> repr]

TextValues == {PyStr(s) : s \in Strings} \cup {PyNone, PyInt}

Parts ==
    {DictPart(FALSE, PyNone)}
    \cup {DictPart(TRUE, v) : v \in TextValues}
    \cup {StrPart(s) : s \in Strings}
    \cup {ObjPart(<<"o">>)}

PartLists == UNION {[1..n -> Parts] : n \in 0..MaxParts}

\* message.content as the provider may deliver it; "nochoices" is a
\* completion whose choices list is empty
NoContent == [t |-> "none", s |-> EmptyStr, parts |-> <<>>]
StrContent(s) == [t |-> "str", s |-> s, parts |-> <<>>]
ListContent(ps) == [t |-> "list", s |-> EmptyStr, parts |-> ps]
OtherContent == [t |-> "other", s |-> EmptyStr, parts |-> <<>>]
NoChoices == [t |-> "nochoices", s |-> EmptyStr, parts |-> <<>>]

Contents ==
    {NoContent, OtherContent, NoChoices}
    \cup {StrContent(s) : s \in Strings}
    \cup {ListContent(ps) : ps \in PartLists}

-----------------------------------------------------------------------------
(* Outcomes of a call: a returned text or a raised exception *)

Returned(s) == [kind |-> "ok", value |-> s, cls |-> "", msg |-> ""]
Raised(cls, msg) == [kind |-> "exc", value |-> NoneStr, cls |-> cls, msg |-> msg]
Pending == [kind |-> "none", value |-> NoneStr, cls |-> "", msg |-> ""]

LLMServiceError(msg) == Raised("LLMServiceError", msg)

MsgCallFailed == "Failed to call LLM via OpenRouter"
MsgEmpty == "Empty response from LLM"
MsgMalformed == "Unexpected LLM response structure"

-----------------------------------------------------------------------------
(* llm_service.py: response normalization inside _call_llm *)

\* part.get("text", "") if isinstance(part, dict) else str(part)
part_text(part) ==
    IF part.t = "dict"
    THEN (IF part.hasText THEN part.text ELSE PyStr(EmptyStr))
    ELSE PyStr(part.s)

text_parts(parts) == [i \in 1..Len(parts) |-> part_text(parts[i])]

\* (t for t in text_parts if t)
RECURSIVE keep_truthy(_)
keep_truthy(vs) ==
    IF vs = <<>> THEN <<>>
    ELSE IF truthy(Head(vs)) THEN <<Head(vs)>> \o keep_truthy(Tail(vs))
    ELSE keep_truthy(Tail(vs))

\* join_strs with the separator dropped
RECURSIVE join_strs_nosep(_)
join_strs_nosep(vs) ==
    IF vs = <<>> THEN <<>>
    ELSE vs[1].s \o join_strs_nosep(Tail(vs))

\* "\n".join(items): TypeError when an item is not a str
RECURSIVE join_strs(_)
join_strs(vs) ==
    IF vs = <<>> THEN <<>>
    ELSE IF Len(vs) = 1 THEN vs[1].s
    ELSE vs[1].s \o <<"\n">> \o join_strs(Tail(vs))

join(vs) ==
    IF \E i \in 1..Len(vs) : vs[i].t # "str"
    THEN Raised("TypeError", "sequence item: expected str instance")
    ELSE Returned(join_strs(vs))

\* the body of the second try block, lines 50-65: a returned text, a raised
\* exception, or "none" when control falls out of the block
extract(c) ==
    IF c.t = "nochoices" THEN Raised("IndexError", "list index out of range")
    ELSE IF c.t = "str"
    THEN (IF Len(strip(c.s)) > 0 THEN Returned(c.s) ELSE LLMServiceError(MsgEmpty))
    ELSE IF c.t = "list" /\ Len(c.parts) > 0
    THEN LET combined == join(keep_truthy(text_parts(c.parts)))
         IN  IF combined.kind = "exc" THEN combined
             ELSE IF Len(strip(combined.value)) > 0 THEN combined
             ELSE Pending
    ELSE Pending

\* try: ... except Exception: raise LLMServiceError("Unexpected ...");
\* then the final raise LLMServiceError("Empty response from LLM")
normalize(c) ==
    LET r == extract(c)
    IN  IF r.kind = "exc" THEN LLMServiceError(MsgMalformed)
        ELSE IF r.kind = "ok" THEN r
        ELSE LLMServiceError(MsgEmpty)

-----------------------------------------------------------------------------
(* Normalizer runs: one provider content, normalized once *)

NormInit ==
    /\ content \in Contents
    /\ outcome = Pending

Normalize ==
    /\ outcome = Pending
    /\ outcome' = normalize(content)
    /\ UNCHANGED content

-----------------------------------------------------------------------------
(* HTTP requests *)

Requests == 1..NumRequests

\* str(uuid4()): a fresh identifier, distinct for every request
uuid4(r) == "uuid-" \o ToString(r)

\* Python "x or y" on optional strings: None and "" are falsy
py_or(x, y) == IF x \in {NoneId, ""} THEN y ELSE x

\* ChatRequest (message required, model and session_id optional) plus the two
\* optional headers: every combination of the identity header and the two
\* session ids, one request with a model override, and bodies without message
\* (the invalid requests)
ChatInput(message, h, b, s, m) ==
    [message |-> message, hdr_request_id |-> h, body_session_id |-> b,
     hdr_session_id |-> s, model |-> m]

Inputs(r) ==
    {ChatInput("ping", h, b, s, NoneId) :
        h \in {NoneId, "", "rid-" \o ToString(r)},
        b \in {NoneId, "sb-" \o ToString(r)},
        s \in {NoneId, "sh-" \o ToString(r)}}
    \cup
    {ChatInput("ping", "rid-" \o ToString(r), "sb-" \o ToString(r),
               "sh-" \o ToString(r), "m1")}
    \cup
    {ChatInput(NoneId, h, NoneId, NoneId, NoneId) :
        h \in {NoneId, "", "rid-" \o ToString(r)}}

NoRequest == ChatInput(NoneId, NoneId, NoneId, NoneId, NoneId)

\* the remote provider: the call raises, or a completion with this content
ProviderRaises == [kind |-> "raise", content |-> NoContent]
ProviderReturns(c) == [kind |-> "content", content |-> c]
Pong == <<"p", "o", "n", "g">>

ProviderBehaviours ==
    {ProviderRaises, ProviderReturns(StrContent(Pong)),
     ProviderReturns(StrContent(EmptyStr))}

-----------------------------------------------------------------------------
(* Responses and spans *)

NoResponse ==
    [status |-> 0, shape |-> "none", response |-> NoneStr, detail |-> "",
     request_id |-> NoneId, x_request_id |-> NoneId]

\* ChatResponse(response=..., request_id=...), status 200
ChatResponse(text, request_id) ==
    [status |-> 200, shape |-> "chat", response |-> text, detail |-> "",
     request_id |-> request_id, x_request_id |-> NoneId]

\* JSONResponse(status_code=500, content={"detail":..., "request_id":...})
JSONResponse(detail, request_id) ==
    [status |-> 500, shape |-> "error", response |-> NoneStr, detail |-> detail,
     request_id |-> request_id, x_request_id |-> NoneId]

\* the framework's answer to a body that fails ChatRequest validation
ValidationResponse ==
    [status |-> 422, shape |-> "validation", response |-> NoneStr,
     detail |-> "validation error", request_id |-> NoneId,
     x_request_id |-> NoneId]

\* an exception that leaves the application: the server's bare 500
ServerErrorResponse ==
    [status |-> 500, shape |-> "plain", response |-> NoneStr,
     detail |-> "Internal Server Error", request_id |-> NoneId,
     x_request_id |-> NoneId]

DetailLLM == "An error occurred while calling the LLM."
DetailGeneric == "Internal server error."

\* the span opened by @observe(name="llm-chat-completion", as_type="generation")
GenerationSpan(res, md_request_id, md_session_id) ==
    [name |-> "llm-chat-completion",
     level |-> IF res.kind = "exc" THEN "ERROR" ELSE "DEFAULT",
     in_request_id |-> NoneId,
     md_request_id |-> md_request_id, md_session_id |-> md_session_id,
     md_error |-> "", md_error_type |-> ""]

\* the span opened by _record_error_span
ErrorSpan(error_type, request_id, error) ==
    [name |-> error_type, level |-> "error", in_request_id |-> request_id,
     md_request_id |-> NoneId, md_session_id |-> NoneId,
     md_error |-> error.msg, md_error_type |-> error_type]

-----------------------------------------------------------------------------
(* llm_service.py: get_llm_response *)

\* def get_llm_response(prompt, request_id=None): positional parameters
MaxPositional == 2

\* _call_llm: the outbound call, then normalization of its content
call_llm(prov) ==
    IF prov.kind = "raise" THEN LLMServiceError(MsgCallFailed)
    ELSE normalize(prov.content)

\* the function body: metadata {"request_id": request_id} when request_id is
\* truthy, then one _call_llm()
get_llm_response(prompt, request_id, prov) ==
    [result |-> call_llm(prov),
     md_request_id |-> IF request_id \in {NoneId, ""} THEN NoneId ELSE request_id,
     md_session_id |-> NoneId,
     calls |-> 1]

\* the decorated function applied to a positional argument list: Python binds
\* the arguments first and raises TypeError when there are too many
observed_get_llm_response(args, prov) ==
    IF Len(args) > MaxPositional \/ Len(args) < 1
    THEN [result |-> Raised("TypeError", "get_llm_response() takes from 1 to 2 positional arguments"),
          md_request_id |-> NoneId, md_session_id |-> NoneId, calls |-> 0]
    ELSE get_llm_response(args[1], IF Len(args) >= 2 THEN args[2] ELSE NoneId, prov)

-----------------------------------------------------------------------------
(* main.py: middleware, endpoint, error handlers *)

\* state_get_request_id reading one slot shared by all requests
state_get_request_id_shared(st, r) == st[CHOOSE q \in DOMAIN st : st[q] # NoneId]

\* getattr(request.state, "request_id", ...)
state_get_request_id(st, r) == st[r]

\* response.headers["X-Request-ID"] = request_id, after call_next returns
middleware_exit(resp, request_id) == [resp EXCEPT !.x_request_id = request_id]

\* the positional arguments of run_in_threadpool(get_llm_response, ...)
endpoint_args(rq, request_id) ==
    <<rq.message, request_id, py_or(rq.body_session_id, rq.hdr_session_id),
      rq.model>>

\* _record_error_span: nothing when the client is None; otherwise one
\* error-level span, unless opening the span raises (traced = FALSE)
record_error_span(client, request_id, error, error_type, traced) ==
    IF client = NoneId THEN [raised |-> FALSE, spans |-> <<>>]
    ELSE IF ~traced THEN [raised |-> TRUE, spans |-> <<>>]
    ELSE [raised |-> FALSE, spans |-> <<ErrorSpan(error_type, request_id, error)>>]

llm_service_exception_handler(client, request_id, exc, traced) ==
    LET rec == record_error_span(client, request_id, exc, "LLMServiceError", traced)
    IN  [raised |-> rec.raised, spans |-> rec.spans,
         response |-> JSONResponse(DetailLLM, request_id)]

generic_exception_handler(client, request_id, exc, traced) ==
    LET rec == record_error_span(client, request_id, exc, "UnhandledException", traced)
    IN  [raised |-> rec.raised, spans |-> rec.spans,
         response |-> JSONResponse(DetailGeneric, request_id)]

\* handler registered for the exception's class: LLMServiceError has its own,
\* every other class falls to the handler registered for Exception
lookup_handler(cls) == IF cls = "LLMServiceError" THEN "llm" ELSE "generic"

TracingError == Raised("TracingError", "span recording failed")

\* what the caller receives once the endpoint's await has finished.  A
\* returned text and a response of the LLMServiceError handler travel back
\* through the request-id middleware; the handler for Exception runs outside
\* every middleware, so its response does not.  An exception raised by a
\* handler is a new unexpected exception.
boundary(request_id, res, client, traced1, traced2) ==
    IF res.kind = "ok"
    THEN [response |-> middleware_exit(ChatResponse(res.value, request_id), request_id),
          spans |-> <<>>]
    ELSE IF lookup_handler(res.cls) = "llm"
    THEN LET h == llm_service_exception_handler(client, request_id, res, traced1)
         IN  IF ~h.raised
             THEN [response |-> middleware_exit(h.response, request_id),
                   spans |-> h.spans]
             ELSE LET g == generic_exception_handler(client, request_id, TracingError, traced2)
                  IN  [response |-> IF g.raised THEN ServerErrorResponse ELSE g.response,
                       spans |-> g.spans]
    ELSE LET g == generic_exception_handler(client, request_id, res, traced1)
         IN  [response |-> IF g.raised THEN ServerErrorResponse ELSE g.response,
              spans |-> g.spans]

\* phase_after_call with the call re-issued after a failure
phase_after_call_retry(res) == IF res.kind = "ok" THEN "Succeeded" ELSE "Dispatched"

\* the await of run_in_threadpool returns or raises
phase_after_call(res) == IF res.kind = "ok" THEN "Succeeded" ELSE "Failed"

-----------------------------------------------------------------------------
(* The request pipeline *)

Init ==
    /\ langfuse_client \in {"client", NoneId}
    /\ provider \in ProviderBehaviours
    /\ pc = [r \in Requests |-> "Idle"]
    /\ req = [r \in Requests |-> NoRequest]
    /\ state_request_id = [r \in Requests |-> NoneId]
    /\ call_args = [r \in Requests |-> <<>>]
    /\ result = [r \in Requests |-> Pending]
    /\ spans = [r \in Requests |-> <<>>]
    /\ response = [r \in Requests |-> NoResponse]
    /\ calls = [r \in Requests |-> 0]
    /\ content = NoContent
    /\ outcome = Pending

\* a client sends a request
Arrive(r) ==
    /\ pc[r] = "Idle"
    /\ \E rq \in Inputs(r) : req' = [req EXCEPT ![r] = rq]
    /\ pc' = [pc EXCEPT ![r] = "Received"]
    /\ UNCHANGED <<langfuse_client, provider, state_request_id, call_args,
                   result, spans, response, calls, normVars>>

\* add_request_id_middleware up to "await call_next(request)"
add_request_id_middleware(r) ==
    /\ pc[r] = "Received"
    /\ state_request_id' =
          [state_request_id EXCEPT ![r] = py_or(req[r].hdr_request_id, uuid4(r))]
    /\ pc' = [pc EXCEPT ![r] = "IdentityAssigned"]
    /\ UNCHANGED <<langfuse_client, provider, req, call_args, result, spans,
                   response, calls, normVars>>

\* chat_endpoint up to "await run_in_threadpool(...)"; a body that fails
\* validation is answered by the framework and never reaches the endpoint
chat_endpoint(r) ==
    /\ pc[r] = "IdentityAssigned"
    /\ IF req[r].message = NoneId
       THEN /\ response' = [response EXCEPT ![r] =
                   middleware_exit(ValidationResponse, state_request_id[r])]
            /\ pc' = [pc EXCEPT ![r] = "Responded"]
            /\ UNCHANGED call_args
       ELSE /\ call_args' = [call_args EXCEPT ![r] =
                   endpoint_args(req[r], state_get_request_id(state_request_id, r))]
            /\ pc' = [pc EXCEPT ![r] = "Dispatched"]
            /\ UNCHANGED response
    /\ UNCHANGED <<langfuse_client, provider, req, state_request_id, result,
                   spans, calls, normVars>>

\* the worker thread runs the observed get_llm_response(*args)
run_in_threadpool(r) ==
    /\ pc[r] = "Dispatched"
    /\ LET out == observed_get_llm_response(call_args[r], provider)
       IN  /\ result' = [result EXCEPT ![r] = out.result]
           /\ spans' = [spans EXCEPT ![r] =
                  Append(@, GenerationSpan(out.result, out.md_request_id,
                                           out.md_session_id))]
           /\ calls' = [calls EXCEPT ![r] = @ + out.calls]
           /\ pc' = [pc EXCEPT ![r] = phase_after_call(out.result)]
    /\ UNCHANGED <<langfuse_client, provider, req, state_request_id, call_args,
                   response, normVars>>

\* the endpoint resumes: it returns ChatResponse, or the exception reaches
\* the handlers; traced1/traced2 say whether opening an error span succeeds
respond(r) ==
    /\ pc[r] \in {"Succeeded", "Failed"}
    /\ \E traced1, traced2 \in BOOLEAN :
          LET rid == IF result[r].kind = "ok" THEN call_args[r][2]
                     ELSE state_get_request_id(state_request_id, r)
              out == boundary(rid, result[r], langfuse_client, traced1, traced2)
          IN  /\ response' = [response EXCEPT ![r] = out.response]
              /\ spans' = [spans EXCEPT ![r] = @ \o out.spans]
    /\ pc' = [pc EXCEPT ![r] = "Responded"]
    /\ UNCHANGED <<langfuse_client, provider, req, state_request_id, call_args,
                   result, calls, normVars>>

Next ==
    \E r \in Requests :
        \/ Arrive(r)
        \/ add_request_id_middleware(r)
        \/ chat_endpoint(r)
        \/ run_in_threadpool(r)
        \/ respond(r)

Spec == Init /\ [][Next]_vars

-----------------------------------------------------------------------------
(* Normalizer specification *)

NormSpecInit ==
    /\ NormInit
    /\ langfuse_client = "client"
    /\ provider = ProviderRaises
    /\ pc = [r \in Requests |-> "Idle"]
    /\ req = [r \in Requests |-> NoRequest]
    /\ state_request_id = [r \in Requests |-> NoneId]
    /\ call_args = [r \in Requests |-> <<>>]
    /\ result = [r \in Requests |-> Pending]
    /\ spans = [r \in Requests |-> <<>>]
    /\ response = [r \in Requests |-> NoResponse]
    /\ calls = [r \in Requests |-> 0]

NormNext == Normalize /\ UNCHANGED pipelineVars

NormSpec == NormSpecInit /\ [][NormNext]_vars

-----------------------------------------------------------------------------
(* Vocabulary of the properties *)

Valid(r) == req[r].message # NoneId

\* the request id established at entry: the identity header when present and
\* non-empty, otherwise the generated identifier
EstablishedId(r) ==
    IF req[r].hdr_request_id # NoneId /\ req[r].hdr_request_id # ""
    THEN req[r].hdr_request_id
    ELSE uuid4(r)

\* body session id when supplied, else header session id when supplied
SuppliedSession(r) ==
    IF req[r].body_session_id # NoneId THEN req[r].body_session_id
    ELSE req[r].hdr_session_id

GenerationSpans(r) ==
    {i \in DOMAIN spans[r] : spans[r][i].name = "llm-chat-completion"}

ErrorPathSpans(r) ==
    {i \in DOMAIN spans[r] :
        spans[r][i].name \in {"LLMServiceError", "UnhandledException"}}

ProviderGivesText ==
    /\ provider.kind = "content"
    /\ provider.content.t = "str"
    /\ \E i \in DOMAIN provider.content.s : ~IsSpace(provider.content.s[i])

-----------------------------------------------------------------------------
(* Request pipeline properties *)

\* C1: every response, on the success path, the LLMServiceError path and the
\* catch-all path alike, carries an X-Request-ID header equal to the request
\* id established at entry.
C1_ResponseEchoesRequestId ==
    \A r \in Requests :
        pc[r] = "Responded" => response[r].x_request_id = EstablishedId(r)

\* C2: a valid POST /chat whose provider returns a plain string that is
\* non-empty after trimming is answered 200 with that string and the request
\* id established at entry.
C2_PlainStringAnswered200 ==
    \A r \in Requests :
        (pc[r] = "Responded" /\ Valid(r) /\ ProviderGivesText)
        => /\ response[r].status = 200
           /\ response[r].shape = "chat"
           /\ response[r].response = provider.content.s
           /\ response[r].request_id = EstablishedId(r)

\* C3: when the outbound provider call raises, the request ends with the
\* CallFailed service error, the caller receives 500 with the service detail
\* and the original request id, and exactly one error-level span of category
\* LLMServiceError is recorded (tracing client present and recording).
C3_ProviderFailureIsServiceError ==
    \A r \in Requests :
        (/\ pc[r] = "Responded" /\ Valid(r) /\ provider.kind = "raise"
         /\ langfuse_client # NoneId /\ response[r].shape # "plain")
        => /\ result[r] = LLMServiceError(MsgCallFailed)
           /\ response[r].status = 500
           /\ response[r].detail = DetailLLM
           /\ response[r].request_id = EstablishedId(r)
           /\ Cardinality({i \in ErrorPathSpans(r) :
                              /\ spans[r][i].name = "LLMServiceError"
                              /\ spans[r][i].level = "error"}) = 1

\* C6: the traced operation's metadata carries the request id always, the
\* body session id when supplied, otherwise the header session id when
\* supplied, and no session id entry when neither is supplied.
C6_TraceMetadataCarriesSession ==
    \A r \in Requests :
        (pc[r] \in {"Succeeded", "Failed", "Responded"} /\ Valid(r))
        => /\ GenerationSpans(r) # {}
           /\ \A i \in GenerationSpans(r) :
                 /\ spans[r][i].md_request_id = EstablishedId(r)
                 /\ spans[r][i].md_session_id = SuppliedSession(r)

C8_TracingNeverMasksError ==
    \A r \in Requests :
        (pc[r] = "Responded" /\ result[r].kind = "exc")
        => /\ response[r].status = 500
           /\ response[r].shape = "error"
           /\ response[r].detail =
                 (IF result[r].cls = "LLMServiceError" THEN DetailLLM
                  ELSE DetailGeneric)
           /\ response[r].request_id = EstablishedId(r)

\* C9: every error of a request is handled exactly once: one error-level
\* span recorded by the error path (tracing client present) and one failure
\* response, status 500, body {detail, request_id}, detail fixed by the
\* category and never the original error's text.
C9_ErrorHandledExactlyOnce ==
    \A r \in Requests :
        (pc[r] = "Responded" /\ result[r].kind = "exc" /\ langfuse_client # NoneId)
        => /\ Cardinality(ErrorPathSpans(r)) = 1
           /\ \A i \in ErrorPathSpans(r) : spans[r][i].level = "error"
           /\ response[r].status = 500
           /\ response[r].shape = "error"
           /\ response[r].detail \in {DetailLLM, DetailGeneric}
           /\ (result[r].cls = "LLMServiceError") <=> (response[r].detail = DetailLLM)
           /\ response[r].detail # result[r].msg
           /\ response[r].request_id = EstablishedId(r)

PhaseRank(p) ==
    CASE p = "Idle" -> 0
      [] p = "Received" -> 1
      [] p = "IdentityAssigned" -> 2
      [] p = "Dispatched" -> 3
      [] p \in {"Succeeded", "Failed"} -> 4
      [] p = "Responded" -> 5

\* C10: a request moves Received, IdentityAssigned, Dispatched, Succeeded or
\* Failed, Responded, one phase at a time (an invalid body is answered right
\* after IdentityAssigned); from Succeeded or Failed it only moves on to
\* Responded, the Invocation Service runs at most once for it and at most
\* one outbound provider call is made.
C10_NoRetry ==
    [][\A r \in Requests :
          /\ pc'[r] # pc[r] =>
                \/ PhaseRank(pc'[r]) = PhaseRank(pc[r]) + 1
                \/ ~Valid(r) /\ pc[r] = "IdentityAssigned" /\ pc'[r] = "Responded"
          /\ pc[r] \in {"Succeeded", "Failed"} => pc'[r] \in {pc[r], "Responded"}
          /\ pc[r] = "Responded" => pc'[r] = "Responded"
          /\ Cardinality(GenerationSpans(r))' <= 1
          /\ calls'[r] <= 1
          /\ pc'[r] \in {"Succeeded", "Failed", "Responded"} /\ Valid(r)'
                => Cardinality(GenerationSpans(r))' = 1]_vars

\* a valid request whose offloaded call failed has been answered
C10_Witness ==
    \E r \in Requests :
        /\ pc[r] = "Responded" /\ Valid(r)
        /\ result[r].kind = "exc"
        /\ Cardinality(GenerationSpans(r)) = 1
        /\ response[r].status = 500

-----------------------------------------------------------------------------
(* Normalizer properties *)

NonBlank(s) == \E i \in DOMAIN s : ~IsSpace(s[i])

\* absent content, empty or whitespace-only string, empty sequence, sequence
\* whose parts all have empty text
Contentless(c) ==
    \/ c.t = "none"
    \/ c.t = "str" /\ ~NonBlank(c.s)
    \/ c.t = "list" /\ Len(c.parts) = 0
    \/ /\ c.t = "list" /\ Len(c.parts) > 0
       /\ \A i \in DOMAIN c.parts :
             /\ c.parts[i].t = "dict" /\ c.parts[i].hasText
             /\ c.parts[i].text = PyStr(EmptyStr)

\* a completion without choices, or a text field holding a non-text value
UnexpectedShape(c) ==
    \/ c.t = "nochoices"
    \/ /\ c.t = "list"
       /\ \E i \in DOMAIN c.parts :
             /\ c.parts[i].t = "dict" /\ c.parts[i].hasText
             /\ c.parts[i].text.t = "int"

\* C4: every contentless content fails with EmptyResponse, not with
\* MalformedResponse, and MalformedResponse is produced only for an
\* unexpected shape.
C4_ContentlessIsEmptyResponse ==
    outcome # Pending
    => /\ Contentless(content) => outcome = LLMServiceError(MsgEmpty)
       /\ outcome = LLMServiceError(MsgMalformed) => UnexpectedShape(content)

\* join the non-empty strings with newline separators, in order
RECURSIVE RefJoin(_)
RefJoin(ss) ==
    IF ss = <<>> THEN <<>>
    ELSE LET rest == RefJoin(Tail(ss))
         IN  IF Head(ss) = <<>> THEN rest
             ELSE IF rest = <<>> THEN Head(ss)
             ELSE Head(ss) \o <<"\n">> \o rest

\* text of a stored value: the string itself, nothing for None
RefText(v) == IF v.t = "str" THEN v.s ELSE <<>>

\* str() of a dict is never empty
DictRepr == <<"{", "}">>

\* reference of the claim as written: a part without a text field
\* contributes the string conversion of the whole part
WrittenContribution(part) ==
    IF part.t = "dict" /\ part.hasText THEN RefText(part.text)
    ELSE IF part.t = "dict" THEN DictRepr
    ELSE part.s

WrittenReference(c) ==
    IF c.t = "str" THEN c.s
    ELSE RefJoin([i \in DOMAIN c.parts |-> WrittenContribution(c.parts[i])])

\* reference of the code: a mapping part contributes its text field, or
\* nothing when it has none; any other part contributes its string conversion
CodeContribution(part) ==
    IF part.t = "dict"
    THEN (IF part.hasText THEN RefText(part.text) ELSE <<>>)
    ELSE part.s

CodeReference(c) ==
    IF c.t = "str" THEN (IF NonBlank(c.s) THEN Returned(c.s) ELSE Pending)
    ELSE IF c.t = "list" /\ ~UnexpectedShape(c)
    THEN LET joined == RefJoin([i \in DOMAIN c.parts |-> CodeContribution(c.parts[i])])
         IN  IF NonBlank(joined) THEN Returned(joined) ELSE Pending
    ELSE Pending

\* C5 as written: a successful result equals the reference in which a part
\* without a text field contributes the string conversion of the whole part.
C5_ResultEqualsWrittenReference ==
    outcome.kind = "ok" => outcome.value = WrittenReference(content)

\* C5: the normalizer succeeds exactly when the reference does, with the same
\* text: a non-blank string verbatim; for a sequence, each mapping part
\* contributes its text field or nothing, each other part its string
\* conversion, and the non-empty contributions joined by newlines are
\* returned when non-blank.
C5_ResultEqualsCodeReference ==
    outcome # Pending
    => IF CodeReference(content).kind = "ok"
       THEN outcome = CodeReference(content)
       ELSE outcome.kind = "exc"

\* a mapping part's text and another part's string conversion were joined
C5_Witness ==
    /\ outcome.kind = "ok"
    /\ content.t = "list"
    /\ \E i, j \in DOMAIN content.parts :
          /\ content.parts[i].t = "dict" /\ content.parts[i].hasText
          /\ content.parts[j].t = "obj"
    /\ \E k \in DOMAIN outcome.value : outcome.value[k] = "\n"

====
